---- MODULE Spec2Model ----
(***************************************************************************)
(* Model of the dream-job-search backend.                                  *)
(*                                                                         *)
(*   Spec        the log broadcast of one session: the /logs handler and   *)
(*               its event_generator on the event-loop thread, log_message *)
(*               called on the event-loop thread (DreamJobSearch.__init__) *)
(*               and on the update_database worker thread.                 *)
(*   SpecExtract extract_job_id applied to one link.                       *)
(*   SpecFilter  filter_by_job_id applied to one batch, then to its own    *)
(*               output.                                                   *)
(*   SpecPipeline update runs of one identity: the /update-database        *)
(*               handler, DreamJobSearch.update_database on its worker     *)
(*               thread with the two feeds and their batch callbacks, and  *)
(*               the event loop's other activity meanwhile.                *)
(*   SpecRefetch the same update runs, with the links of the records the   *)
(*               detail feed delivers to each run recorded.                *)
(*   SpecSession the session registry: get_user_session and logout, with   *)
(*               the return value of each get_user_session call recorded.  *)
(*   SpecAccess  the protected endpoints behind get_current_user, /login,  *)
(*               the construction of DreamJobSearch for a session, and an  *)
(*               update run publishing to the session's subscribers.       *)
(*   SpecStore   /register: two calls of register_user on one store.       *)
(*   SpecScore   score_job_postings applied to one keyword list and one    *)
(*               job description.                                          *)
(***************************************************************************)
EXTENDS Integers, Sequences, FiniteSets, TLC

VARIABLES
    \* ---- state of the program (one session) ----
    subscribers,    \* session["subscribers"]: the list of queues
    queue,          \* per asyncio.Queue created by logs and per message: how
                    \* often put_nowait has put the message on the queue
    conn,           \* per queue: "none" | "registered" | "streaming" | "closed"
    ready,          \* callbacks scheduled on the loop by call_soon_threadsafe
    wPc,            \* worker thread: "idle" | "iter" | "put"
    wIdx,           \* worker thread: index of the list iterator
    wCur,           \* worker thread: the subscriber the for loop holds
    wMsg,           \* worker thread: the message being published
    nextMsg,        \* number of log_message calls begun so far
    \* ---- history of the run ----
    pubThread,      \* per message: the thread its log_message ran on
    pubStart,       \* per message: the subscribers when the call began
    pubAdded,       \* per message: queues subscribed during the call
    pubRemoved,     \* per message: queues unsubscribed during the call
    regAt,          \* per queue: nextMsg when logs registered it
    removedAt,      \* per queue: nextMsg when it was removed (-1: never)
    \* ---- extract_job_id / filter_by_job_id ----
    fPc,            \* "idle" | "input" | "filtered" | "refiltered"
    fLink,          \* the link given to extract_job_id
    fId,            \* what extract_job_id returned
    fBatch,         \* new_items
    fExisting,      \* the links of existing_df
    fFallback,      \* fallback_filter_func: "none" or a predicate's name
    fKept,          \* positions of new_items that were appended
    fResult,        \* filtered_items
    fAgain,         \* filter_by_job_id(filtered_items, existing_df)
    \* ---- update runs of one identity ----
    searchDs,       \* links of the rows of the "search results" sheet
    detailDs,       \* links of the rows of the "postings" sheet
    rPc,            \* per run: where update_database stands
    rBatch,         \* per run: batch_results of the callback in progress
    rSnap,          \* per run: the dataframe the callback has read
    rUrls,          \* per run: urls given to the detail feed
    fed,            \* per feed: batches delivered so far, all runs
    rErr,           \* per run: the exception that aborted it, or NoError
    rRaised,        \* per run: the exception update_database raised
    req,            \* per run: "none" | "awaiting" | the response
    pQueue,         \* per subscriber: messages put_nowait has enqueued
    loopHeld,       \* the run whose handler occupies the loop thread, or 0
    \* ---- history of the update runs ----
    rTrace,         \* per run: its log messages and feed calls, in order
    rOverlap,       \* per run: another run was in progress during it
    rStartUnique,   \* per run: the datasets had no duplicate when it began
    rFetched,       \* per run: links of the records the detail feed gave it
    \* ---- session registry ----
    user_sessions,  \* the sessions: records [email, sid, djs, subs]
    nextSid,        \* number of session objects created so far
    got,            \* per identity: the session its last access returned
    prevGot,        \* per identity: the one its access before that returned
    lastGet,        \* the last get_user_session call: the identity, its
                    \* sessions before the call, the session returned
    lastReq,        \* the last request taken up: endpoint, identity, what
                    \* it presented, status of the response (0: none yet)
    discarded,      \* session objects deleted from user_sessions that
                    \* streams and pipelines still refer to
    running,        \* the update runs in progress on a worker thread: the
                    \* list (by session id) the pipeline publishes to, the
                    \* identity and what its request presented
    deliveredTo,    \* the discarded sessions (by id) on whose queues a
                    \* message was put after logout deleted them
    nextDs,         \* number of spreadsheets that exist in the sheet store
    attached,       \* per identity: the spreadsheets its pipelines used
    \* ---- user store ----
    users,          \* the users table: per email a row or NoUser
    reg,            \* per register_user call in progress: its position,
                    \* arguments, what its query saw and its result
    \* ---- score_job_postings ----
    scPc,           \* "idle" | "input" | "scored"
    scKeywords,     \* keywords
    scText,         \* job_description of the record
    scMatched,      \* the record's matched_keywords
    scScore         \* the record's score

busVars == <<subscribers, queue, conn, ready, wPc, wIdx, wCur,
             wMsg, nextMsg, pubThread, pubStart, pubAdded, pubRemoved, regAt,
             removedAt>>
filterVars == <<fPc, fLink, fId, fBatch, fExisting, fFallback, fKept, fResult,
                fAgain>>
pipeVars == <<searchDs, detailDs, rPc, rBatch, rSnap, rUrls, fed, rErr,
              rRaised, req, pQueue, loopHeld, rTrace,
              rOverlap, rStartUnique, rFetched>>
sessVars == <<user_sessions, nextSid, got, prevGot, lastGet, lastReq,
              discarded, running, deliveredTo, nextDs, attached>>
storeVars == <<users, reg>>
scoreVars == <<scPc, scKeywords, scText, scMatched, scScore>>
vars == <<busVars, filterVars, pipeVars, sessVars, storeVars, scoreVars>>
offBus == <<filterVars, pipeVars, sessVars, storeVars, scoreVars>>
offFilter == <<busVars, pipeVars, sessVars, storeVars, scoreVars>>
offPipe == <<busVars, filterVars, sessVars, storeVars, scoreVars>>
offSess == <<busVars, filterVars, pipeVars, scoreVars, users, reg>>
offStore == <<busVars, filterVars, pipeVars, sessVars, scoreVars>>
offScore == <<busVars, filterVars, pipeVars, sessVars, storeVars>>

----------------------------------------------------------------------------
(* Bounds *)

\* connections the /logs endpoint accepts in a run of the model
MaxConns == 2
\* log_message calls in a run of the model
MaxMsgs == 2

QueueIds == 1..MaxConns

\* update runs of the identity in a run of the model
MaxRuns == 2
\* batches the search feed delivers, all runs together
MaxSearchBatches == 2
\* batches the detail feed delivers, all runs together
MaxDetailBatches == 1
\* items of one batch
MaxFeedBatch == 2
\* session objects created in a run of the model
MaxSessions == 3
\* /logs connections of one session
MaxStreams == 1
\* spreadsheets in the sheet store in a run of the model
MaxDatasets == 3
\* lists in a nested batch of the search feed
MaxSublists == 2
\* length of the keywords list given to score_job_postings
MaxKeywords == 2
\* characters of one keyword
MaxKeywordLen == 3

RunIds == 1..MaxRuns
\* the queues of session["subscribers"] during the update runs
PSubs == {1, 2, 3}
Identities == {"a@x", "b@x"}
NoError == "none"
NoSession == 0
\* rFetched while the deliveries of the detail feed are not followed
Untracked == [r \in RunIds |-> {<<>>}]
\* the emails of requests: the identities and one that is not registered
Emails == Identities \cup {"c@x"}
Passwords == {"p", "q"}
\* spreadsheet_data == {}: the user row names no spreadsheet
NoDescriptor == 0
\* session.query(User).filter(User.email == email).first() is None
NoUser ==
    [exists |-> FALSE, password_hash |-> <<>>, google_creds |-> "none",
     spreadsheet_data |-> NoDescriptor]
\* the register_user calls of a run of the model
RegCalls == {1, 2}
MsgIds == 1..MaxMsgs

----------------------------------------------------------------------------
(* Helpers on lists *)

Range(s) == {s[i] : i \in 1..Len(s)}

\* list.append
ListAppend(s, x) == Append(s, x)

\* list.remove: drops the first occurrence
ListRemove_KeepsItem(s, x) == s

ListRemove(s, x) ==
    IF \E i \in 1..Len(s) : s[i] = x
    THEN LET i == CHOOSE k \in 1..Len(s) :
                      s[k] = x /\ \A j \in 1..(k - 1) : s[j] # x
         IN SubSeq(s, 1, i - 1) \o SubSeq(s, i + 1, Len(s))
    ELSE s

----------------------------------------------------------------------------
(* _safe_send_to_subscribers *)

\* asyncio.get_running_loop() succeeds only on the thread that runs the loop
HasRunningLoop(thread) == thread = "loop"

\* try: get_running_loop(); call_soon_threadsafe(...)
\* except RuntimeError: subscriber.put_nowait(message)
SendMode(thread) ==
    IF HasRunningLoop(thread) THEN "threadsafe" ELSE "direct"

\* asyncio.Queue.put_nowait on an unbounded queue
PutNowait(qs, q, m) == [qs EXCEPT ![q][m] = @ + 1]

RECURSIVE PutAll(_, _, _)
PutAll(qs, targets, m) ==
    IF targets = <<>> THEN qs
    ELSE PutAll(PutNowait(qs, Head(targets), m), Tail(targets), m)

\* loop.call_soon_threadsafe(subscriber.put_nowait, message)
CallSoonThreadsafe(rdy, q, m) == Append(rdy, [q |-> q, m |-> m])

RECURSIVE CallSoonAll(_, _, _)
CallSoonAll(rdy, targets, m) ==
    IF targets = <<>> THEN rdy
    ELSE CallSoonAll(CallSoonThreadsafe(rdy, Head(targets), m),
                     Tail(targets), m)

\* the list iterator of "for subscriber in self.log_subscribers"
IterHasNext(idx, s) == idx < Len(s)
IterItem(idx, s) == s[idx + 1]

IterAdvance_Skip(idx) == idx + 2

IterAdvance(idx) == idx + 1

\* queues that are no longer in the subscriber list
Removed == {q \in QueueIds : removedAt[q] # -1}

\* the message of the log_message call the worker thread is inside of
WorkerBusy == wPc # "idle"
InProgress == IF WorkerBusy THEN {wMsg} ELSE {}

\* a publish on the calling thread: one pass over the list, no suspension
\* (the event-loop thread runs it inside one callback)
LoopPublish(m) ==
    /\ pubThread' = [pubThread EXCEPT ![m] = "loop"]
    /\ pubStart' = [pubStart EXCEPT ![m] = Range(subscribers)]
    /\ nextMsg' = m
    /\ IF SendMode("loop") = "threadsafe"
       THEN /\ ready' = CallSoonAll(ready, subscribers, m)
            /\ UNCHANGED queue
       ELSE /\ queue' = PutAll(queue, subscribers, m)
            /\ UNCHANGED ready

----------------------------------------------------------------------------
(* Event-loop thread *)

\* logs(): queue = asyncio.Queue(); session["subscribers"].append(queue)
logs ==
    /\ \E q \in QueueIds :
        /\ conn[q] = "none"
        /\ \A p \in QueueIds : p < q => conn[p] # "none"
        /\ subscribers' = ListAppend(subscribers, q)
        /\ conn' = [conn EXCEPT ![q] = "registered"]
        /\ regAt' = [regAt EXCEPT ![q] = nextMsg]
        /\ pubAdded' = [m \in MsgIds |->
                          IF m \in InProgress THEN pubAdded[m] \cup {q}
                          ELSE pubAdded[m]]
    /\ UNCHANGED <<queue, ready, wPc, wIdx, wCur, wMsg, nextMsg,
                   pubThread, pubStart, pubRemoved, removedAt>>
    /\ UNCHANGED offBus

\* StreamingResponse starts iterating event_generator: it enters the try
\* block and waits in queue.get()
event_generator_start ==
    /\ \E q \in QueueIds :
        /\ conn[q] = "registered"
        /\ conn' = [conn EXCEPT ![q] = "streaming"]
    /\ UNCHANGED <<subscribers, queue, ready, wPc, wIdx, wCur,
                   wMsg, nextMsg, pubThread, pubStart, pubAdded, pubRemoved,
                   regAt, removedAt>>
    /\ UNCHANGED offBus

\* the stream closes, errors or is cancelled while event_generator runs:
\* finally: session["subscribers"].remove(queue)
event_generator_finally ==
    /\ \E q \in QueueIds :
        /\ conn[q] = "streaming"
        /\ subscribers' = ListRemove(subscribers, q)
        /\ conn' = [conn EXCEPT ![q] = "closed"]
        /\ removedAt' = [removedAt EXCEPT ![q] = nextMsg]
        /\ pubRemoved' = [m \in MsgIds |->
                            IF m \in InProgress THEN pubRemoved[m] \cup {q}
                            ELSE pubRemoved[m]]
    /\ UNCHANGED <<queue, ready, wPc, wIdx, wCur, wMsg, nextMsg,
                   pubThread, pubStart, pubAdded, regAt>>
    /\ UNCHANGED offBus

\* the connection ends after logs() returned and before the generator was
\* iterated: the generator never entered its try block, no finally runs
disconnect_before_start ==
    /\ \E q \in QueueIds :
        /\ conn[q] = "registered"
        /\ conn' = [conn EXCEPT ![q] = "closed"]
    /\ UNCHANGED <<subscribers, queue, ready, wPc, wIdx, wCur,
                   wMsg, nextMsg, pubThread, pubStart, pubAdded, pubRemoved,
                   regAt, removedAt>>
    /\ UNCHANGED offBus

\* the loop runs the oldest callback scheduled by call_soon_threadsafe
run_callback ==
    /\ ready # <<>>
    /\ queue' = PutNowait(queue, Head(ready).q, Head(ready).m)
    /\ ready' = Tail(ready)
    /\ UNCHANGED <<subscribers, conn, wPc, wIdx, wCur, wMsg,
                   nextMsg, pubThread, pubStart, pubAdded, pubRemoved, regAt,
                   removedAt>>
    /\ UNCHANGED offBus

\* a log_message of DreamJobSearch.__init__ (setup_sheet, setup_scrapers),
\* which initialize_user_dream_job_search calls on the loop thread
init_log_message ==
    /\ nextMsg < MaxMsgs
    /\ LoopPublish(nextMsg + 1)
    /\ UNCHANGED <<subscribers, conn, wPc, wIdx, wCur, wMsg, pubAdded,
                   pubRemoved, regAt, removedAt>>
    /\ UNCHANGED offBus

----------------------------------------------------------------------------
(* Worker thread running DreamJobSearch.update_database *)

\* log_message: "if not self.log_subscribers: return", else the for loop
\* starts
worker_log_message ==
    /\ wPc = "idle"
    /\ nextMsg < MaxMsgs
    /\ nextMsg' = nextMsg + 1
    /\ wMsg' = nextMsg + 1
    /\ pubThread' = [pubThread EXCEPT ![nextMsg + 1] = "worker"]
    /\ pubStart' = [pubStart EXCEPT ![nextMsg + 1] = Range(subscribers)]
    /\ wIdx' = 0
    /\ wCur' = 0
    /\ wPc' = IF subscribers = <<>> THEN "idle" ELSE "iter"
    /\ UNCHANGED <<subscribers, queue, conn, ready, pubAdded,
                   pubRemoved, regAt, removedAt>>
    /\ UNCHANGED offBus

\* the for loop asks the list iterator for the next subscriber
worker_iter ==
    /\ wPc = "iter"
    /\ IF IterHasNext(wIdx, subscribers)
       THEN /\ wCur' = IterItem(wIdx, subscribers)
            /\ wIdx' = IterAdvance(wIdx)
            /\ wPc' = "put"
       ELSE /\ wPc' = "idle"
            /\ UNCHANGED <<wCur, wIdx>>
    /\ UNCHANGED <<subscribers, queue, conn, ready, wMsg,
                   nextMsg, pubThread, pubStart, pubAdded, pubRemoved, regAt,
                   removedAt>>
    /\ UNCHANGED offBus

\* the body of the for loop, on the worker thread
worker_put ==
    /\ wPc = "put"
    /\ IF SendMode("worker") = "threadsafe"
       THEN /\ ready' = CallSoonThreadsafe(ready, wCur, wMsg)
            /\ UNCHANGED queue
       ELSE /\ queue' = PutNowait(queue, wCur, wMsg)
            /\ UNCHANGED ready
    /\ wPc' = "iter"
    /\ UNCHANGED <<subscribers, conn, wIdx, wCur, wMsg, nextMsg,
                   pubThread, pubStart, pubAdded, pubRemoved, regAt,
                   removedAt>>
    /\ UNCHANGED offBus

----------------------------------------------------------------------------
(* Specification of the log broadcast *)

FilterIdle ==
    /\ fPc = "idle"
    /\ fLink = <<>>
    /\ fId = <<>>
    /\ fBatch = <<>>
    /\ fExisting = <<>>
    /\ fFallback = "none"
    /\ fKept = <<>>
    /\ fResult = <<>>
    /\ fAgain = <<>>

PipeIdle ==
    /\ searchDs = <<>>
    /\ detailDs = <<>>
    /\ rPc = [r \in RunIds |-> "idle"]
    /\ rBatch = [r \in RunIds |-> <<>>]
    /\ rSnap = [r \in RunIds |-> <<>>]
    /\ rUrls = [r \in RunIds |-> <<>>]
    /\ fed = [search |-> 0, detail |-> 0]
    /\ rErr = [r \in RunIds |-> NoError]
    /\ rRaised = [r \in RunIds |-> NoError]
    /\ req = [r \in RunIds |-> "none"]
    /\ pQueue = [s \in PSubs |-> 0]
    /\ loopHeld = 0
    /\ rTrace = [r \in RunIds |-> <<>>]
    /\ rOverlap = [r \in RunIds |-> FALSE]
    /\ rStartUnique = [r \in RunIds |-> TRUE]
    /\ rFetched = Untracked

RegistryIdle ==
    /\ user_sessions = {}
    /\ nextSid = 0
    /\ got = [e \in Identities |-> NoSession]
    /\ prevGot = [e \in Identities |-> NoSession]
    /\ lastReq = [endpoint |-> "none", email |-> "none",
                  presented |-> "none", status |-> 0]
    /\ discarded = {}
    /\ running = {}
    /\ deliveredTo = {}
    /\ nextDs = 1
    /\ attached = [e \in Identities |-> {}]

SessIdle ==
    /\ RegistryIdle
    /\ lastGet = [email |-> "none", before |-> {},
                  after |-> [email |-> "none", sid |-> 0, djs |-> 0,
                             subs |-> <<>>]]

\* bcrypt.hashpw(plain_password, salt): the hash verifies plain_password only
hash_password(pw) == <<"bcrypt", pw>>

\* User(email, google_creds, spreadsheet_data, password_hash)
User(creds, sd, pw) ==
    [exists |-> TRUE, password_hash |-> hash_password(pw),
     google_creds |-> creds, spreadsheet_data |-> sd]

\* a users table: a@x registered without a spreadsheet, b@x registered with
\* spreadsheet 1, c@x not registered
RegisteredUsers ==
    [e \in Emails |->
        CASE e = "a@x" -> User("ga", NoDescriptor, "p")
          [] e = "b@x" -> User("gb", 1, "q")
          [] OTHER -> NoUser]

\* auth_service.register and auth_service.login return None
NoToken == [email |-> "none", kind |-> "missing"]

\* a register_user call that has not begun
NoRegistration ==
    [pc |-> "idle", email |-> "none", password |-> "none",
     creds |-> "none", sd |-> NoDescriptor, seen |-> FALSE,
     result |-> "none", token |-> NoToken, status |-> 0]

StoreIdle ==
    /\ users = RegisteredUsers
    /\ reg = [k \in RegCalls |-> NoRegistration]

ScoreIdle ==
    /\ scPc = "idle"
    /\ scKeywords = <<>>
    /\ scText = <<>>
    /\ scMatched = <<>>
    /\ scScore = 0

BusInit ==
    /\ subscribers = <<>>
    /\ queue = [q \in QueueIds |-> [m \in MsgIds |-> 0]]
    /\ conn = [q \in QueueIds |-> "none"]
    /\ ready = <<>>
    /\ wPc = "idle"
    /\ wIdx = 0
    /\ wCur = 0
    /\ wMsg = 0
    /\ nextMsg = 0
    /\ pubThread = [m \in MsgIds |-> "none"]
    /\ pubStart = [m \in MsgIds |-> {}]
    /\ pubAdded = [m \in MsgIds |-> {}]
    /\ pubRemoved = [m \in MsgIds |-> {}]
    /\ regAt = [q \in QueueIds |-> -1]
    /\ removedAt = [q \in QueueIds |-> -1]

Init ==
    BusInit /\ FilterIdle /\ PipeIdle /\ SessIdle /\ StoreIdle /\ ScoreIdle

Next ==
    \/ logs
    \/ event_generator_start
    \/ event_generator_finally
    \/ disconnect_before_start
    \/ run_callback
    \/ init_log_message
    \/ worker_log_message
    \/ worker_iter
    \/ worker_put

Spec == Init /\ [][Next]_vars

----------------------------------------------------------------------------
(* extract_job_id: links are sequences of characters *)

\* the width of \d{10} in the pattern
IdLen == 10
\* the digit runs of the links tried are IdLen - RunSlack .. IdLen + RunSlack long
RunSlack == 1
\* items in a batch, links in the existing dataset
MaxBatch == 3
MaxExisting == 1

Digits == {"0", "1", "2", "3", "4", "5", "6", "7", "8", "9"}
View == <<"/", "v", "i", "e", "w", "/">>
Newline == "\n"
\* extract_job_id returns None
NoId == <<>>

Min(S) == CHOOSE x \in S : \A y \in S : x <= y

RECURSIVE Rep(_, _)
Rep(c, n) == IF n <= 0 THEN <<>> ELSE <<c>> \o Rep(c, n - 1)

\* the literal "/view/" starts at position i
IsViewAt(link, i) ==
    i + Len(View) - 1 <= Len(link) /\ SubSeq(link, i, i + Len(View) - 1) = View

\* position j holds "-" and \d{10} follows it
IsIdAt(link, j) ==
    /\ j + IdLen <= Len(link)
    /\ link[j] = "-"
    /\ \A k \in 1..IdLen : link[j + k] \in Digits

\* ".*?" spans from the end of "/view/" at i to the hyphen at j: any
\* characters but a newline
DotSpan(link, i, j) ==
    \A k \in (i + Len(View))..(j - 1) : link[k] # Newline

\* the hyphens at which the pattern, started at i, can match
MatchEnds(link, i) ==
    {j \in (i + Len(View))..Len(link) : IsIdAt(link, j) /\ DotSpan(link, i, j)}

\* re.search: the leftmost start; ".*?": the nearest hyphen that fits
extract_job_id(link) ==
    LET starts == {i \in 1..Len(link) :
                      IsViewAt(link, i) /\ MatchEnds(link, i) # {}}
    IN IF starts = {} THEN NoId
       ELSE LET j == Min(MatchEnds(link, Min(starts)))
            IN SubSeq(link, j + 1, j + IdLen)

----------------------------------------------------------------------------
(* filter_by_job_id *)

\* item_link: the item itself for a bare link, its link field for a row
ItemLink(item) == item

\* existing_job_ids: the identities of the links of existing_df
ExistingJobIds(existing) ==
    {extract_job_id(existing[i]) : i \in 1..Len(existing)} \ {NoId}

\* fallback_filter and url_fallback_filter: the link is not in the dataset
FallbackEval_Always(fb, item, dataset) == fb = "not_in_existing"

FallbackEval(fb, item, dataset) ==
    /\ fb = "not_in_existing"
    /\ \A i \in 1..Len(dataset) : dataset[i] # ItemLink(item)

\* what the fallback predicate is given as existing_df
FallbackDataset_WithAccepted(existing, accepted) == existing \o accepted

FallbackDataset(existing, accepted) == existing

\* existing_job_ids.add(job_id)
SeenAfterAccept_Forgets(seen, id) == seen

SeenAfterAccept(seen, id) == seen \cup {id}

\* "for item in new_items" starts with the first item
FirstPosition_SkipsOne == 1 + 1

FirstPosition == 1

\* the loop over new_items from position i on: the positions appended to
\* filtered_items
RECURSIVE FilterFrom(_, _, _, _, _, _)
FilterFrom(items, i, seen, accepted, existing, fb) ==
    IF i > Len(items) THEN <<>>
    ELSE LET item == items[i]
             id == extract_job_id(ItemLink(item))
         IN IF id # NoId /\ id \notin seen
            THEN <<i>> \o FilterFrom(items, i + 1, SeenAfterAccept(seen, id),
                                     Append(accepted, item), existing, fb)
            ELSE IF id = NoId /\ fb # "none"
                    /\ FallbackEval(fb, item,
                                    FallbackDataset(existing, accepted))
            THEN <<i>> \o FilterFrom(items, i + 1, seen,
                                     Append(accepted, item), existing, fb)
            ELSE FilterFrom(items, i + 1, seen, accepted, existing, fb)

KeptPositions(items, existing, fb) ==
    FilterFrom(items, FirstPosition, ExistingJobIds(existing), <<>>,
               existing, fb)

\* filtered_items: the items at the kept positions, in batch order
ItemsAt(items, kept) == [k \in 1..Len(kept) |-> items[kept[k]]]

filter_by_job_id(items, existing, fb) ==
    ItemsAt(items, KeptPositions(items, existing, fb))

----------------------------------------------------------------------------
(* Inputs *)

RunLens == (IdLen - RunSlack)..(IdLen + RunSlack)

\* digit runs of length n: all "1", or a "2" followed by "1"s
Runs(n) == {Rep("1", n), <<"2">> \o Rep("1", n - 1)}

ExtractLinks ==
    {pre \o tok \o slug \o sep \o run \o post :
        pre \in {<<>>, <<"x">>},
        tok \in {View, <<"/", "v", "i", "e", "/">>},
        slug \in {<<>>, <<"a">>, <<"a", "-", "b">>, <<"a", Newline>>, <<"7">>},
        sep \in {<<"-">>, <<>>, <<"_">>},
        run \in UNION {Runs(n) : n \in RunLens},
        post \in {<<>>, <<"/">>, <<"/", "x">>, <<"?">>,
                  <<"-">> \o Rep("3", IdLen)}}

\* .../view/f-1111111111, .../view/b-1111111111/ (the same identity),
\* .../view/f-2111111111 and a link with no identity
FilterLinks ==
    {View \o <<"f", "-">> \o Rep("1", IdLen),
     View \o <<"b", "-">> \o Rep("1", IdLen) \o <<"/">>,
     View \o <<"f", "-", "2">> \o Rep("1", IdLen - 1),
     <<"x">>}

SeqsUpTo(S, n) == UNION {[1..k -> S] : k \in 0..n}

----------------------------------------------------------------------------
(* Specifications of the two pure functions *)

ExtractInit ==
    /\ BusInit
    /\ PipeIdle
    /\ SessIdle
    /\ StoreIdle
    /\ ScoreIdle
    /\ fPc = "input"
    /\ fLink \in ExtractLinks
    /\ fId = NoId
    /\ fBatch = <<>>
    /\ fExisting = <<>>
    /\ fFallback = "none"
    /\ fKept = <<>>
    /\ fResult = <<>>
    /\ fAgain = <<>>

\* extract_job_id(linkedin_url)
extract_call ==
    /\ fPc = "input"
    /\ fId' = extract_job_id(fLink)
    /\ fPc' = "extracted"
    /\ UNCHANGED <<fLink, fBatch, fExisting, fFallback, fKept, fResult, fAgain>>
    /\ UNCHANGED offFilter

SpecExtract == ExtractInit /\ [][extract_call]_vars

FilterInit ==
    /\ BusInit
    /\ PipeIdle
    /\ SessIdle
    /\ StoreIdle
    /\ ScoreIdle
    /\ fPc = "input"
    /\ fLink = <<>>
    /\ fId = NoId
    /\ fBatch \in SeqsUpTo(FilterLinks, MaxBatch)
    /\ fExisting \in SeqsUpTo(FilterLinks, MaxExisting)
    /\ fFallback \in {"none", "not_in_existing"}
    /\ fKept = <<>>
    /\ fResult = <<>>
    /\ fAgain = <<>>

\* filter_by_job_id(new_items, existing_df, "link", fallback_filter_func)
filter_call ==
    /\ fPc = "input"
    /\ fKept' = KeptPositions(fBatch, fExisting, fFallback)
    /\ fResult' = ItemsAt(fBatch, fKept')
    /\ fPc' = "filtered"
    /\ UNCHANGED <<fLink, fId, fBatch, fExisting, fFallback, fAgain>>
    /\ UNCHANGED offFilter

\* filter_by_job_id applied to its own output, with the same existing_df
filter_again ==
    /\ fPc = "filtered"
    /\ fAgain' = filter_by_job_id(fResult, fExisting, fFallback)
    /\ fPc' = "refiltered"
    /\ UNCHANGED <<fLink, fId, fBatch, fExisting, fFallback, fKept, fResult>>
    /\ UNCHANGED offFilter

FilterNext == filter_call \/ filter_again

SpecFilter == FilterInit /\ [][FilterNext]_vars

----------------------------------------------------------------------------
(* Update runs: update_database and its two feeds *)

\* links the feeds deliver: .../view/f-1111111111, .../view/b-1111111111/
\* (the same identity) and a link with no identity
PipeLinks ==
    {View \o <<"f", "-">> \o Rep("1", IdLen),
     View \o <<"b", "-">> \o Rep("1", IdLen) \o <<"/">>,
     <<"x">>}
\* the links of a batch that has any
FeedBatches == {b \in SeqsUpTo(PipeLinks, MaxFeedBatch) : Len(b) > 0}

\* an element of batch_results of the search feed: a link or a list of links
Str(link) == [type |-> "str", v |-> link]
List(links) == [type |-> "list", v |-> links]
\* isinstance(x, list)
IsList(x) == x.type = "list"
\* for item in sublist: the items of a list, the characters of a str
ItemsOf(x) ==
    IF IsList(x) THEN [i \in 1..Len(x.v) |-> Str(x.v[i])]
    ELSE [i \in 1..Len(x.v) |-> Str(<<x.v[i]>>)]
\* [item for sublist in batch_results for item in sublist]
RECURSIVE Flatten(_)
Flatten(batch) ==
    IF batch = <<>> THEN <<>> ELSE ItemsOf(Head(batch)) \o Flatten(Tail(batch))
\* batch_results[0] raises IndexError
FirstItemMissing(batch) == Len(batch) = 0
\* if isinstance(batch_results[0], list): batch_results = [...]
BatchResults(batch) == IF IsList(batch[1]) THEN Flatten(batch) ELSE batch
\* the link of each row: {"link": link, ...} for link in batch_results
Links(batch_results) == [i \in 1..Len(batch_results) |-> batch_results[i].v]

RECURSIVE TotalLen(_)
TotalLen(lists) ==
    IF lists = <<>> THEN 0 ELSE Len(Head(lists)) + TotalLen(Tail(lists))
\* the batches the search feed hands to on_batch_complete: a finite sequence
\* of links, possibly empty, or a sequence of such sequences
FlatBatches ==
    {[i \in 1..Len(b) |-> Str(b[i])] : b \in FeedBatches \cup {<<>>}}
NestedBatches ==
    {[i \in 1..Len(n) |-> List(n[i])] :
        n \in {m \in SeqsUpTo(FeedBatches \cup {<<>>}, MaxSublists) :
                  Len(m) > 0 /\ TotalLen(m) <= MaxFeedBatch}}
SearchDeliveries == FlatBatches \cup NestedBatches
\* the batches the detail feed hands to on_batch_complete: the links of a
\* finite sequence of records, possibly empty
DetailDeliveries == FeedBatches \cup {<<>>}

\* session["subscribers"] during the update runs
PSubList == <<1, 2, 3>>
\* the subscribers whose put_nowait raises
FailingSubs == {2}

\* no two rows of the dataset carry the same extractable identity
UniqueIds(ds) ==
    \A i, j \in 1..Len(ds) :
        (i < j /\ extract_job_id(ds[i]) # NoId)
            => extract_job_id(ds[i]) # extract_job_id(ds[j])

\* the detail dataset holds a record for the link: one with the same
\* identity, or with the same link when the link has no identity
HasDetail(link, dd) ==
    IF extract_job_id(link) # NoId
    THEN \E j \in 1..Len(dd) : extract_job_id(dd[j]) = extract_job_id(link)
    ELSE link \in Range(dd)

\* every link of the search dataset has a detail record
Covered(sd, dd) == \A i \in 1..Len(sd) : HasDetail(sd[i], dd)

Running(r) ==
    rPc[r] \in {"search", "search_append", "detail", "detail_append",
                "cleanup"}

\* an entry of a run's trace
Ev(kind, arg) == [ev |-> kind, arg |-> arg]
Log(kind) == Ev(kind, <<>>)

\* the counts the text of a batch callback's message tells:
\* f"Scraped {len(batch_results)} ..." has the count before filtering,
\* f"Adding {len(filtered_rows)} new ..." the count after it
Carries(kind) ==
    CASE kind \in {"scraped_links", "scraped_postings"} -> {"before"}
      [] kind \in {"adding_links", "adding_postings"} -> {"after"}
      [] OTHER -> {}

\* the for loop of _safe_send_to_subscribers: an exception of put_nowait is
\* caught inside the loop body and the loop goes on
OnPutError_Stop(i, n) == n + 1
OnPutError(i, n) == i + 1

RECURSIVE SafeSend(_, _, _, _)
SafeSend(qs, subs, i, fails) ==
    IF i > Len(subs) THEN qs
    ELSE IF subs[i] \in fails
         THEN SafeSend(qs, subs, OnPutError(i, Len(subs)), fails)
         ELSE SafeSend([qs EXCEPT ![subs[i]] = @ + 1], subs, i + 1, fails)

\* k calls of log_message on the worker thread
RECURSIVE Publish(_, _)
Publish(qs, k) ==
    IF k = 0 THEN qs ELSE Publish(SafeSend(qs, PSubList, 1, FailingSubs), k - 1)

\* job_search_sheet_handler.get_dataframe() in add_jobs_to_sheet
SearchSnapshot_Empty(ds) == <<>>
SearchSnapshot(ds) == ds
\* job_posting_sheet_handler.get_dataframe() in add_job_postings_to_sheet
DetailSnapshot(ds) == ds

\* add_rows_to_sheet: the rows go to the end of the sheet
AppendRows_SkipPresent(ds, rows) ==
    ds \o SelectSeq(rows, LAMBDA x : x \notin Range(ds))
AppendRows(ds, rows) == ds \o rows

\* if filtered_rows: add_rows_to_sheet(filtered_rows)
AppendIfAny_AtFront(ds, rows) == rows \o ds
AppendIfAny(ds, rows) == IF rows # <<>> THEN AppendRows(ds, rows) ELSE ds

\* urls = self.filter_by_job_id(job_search_df["link"].values.tolist(),
\* job_posting_df, "link", url_fallback_filter)
Candidates_All(sd, dd) == sd
Candidates(sd, dd) == filter_by_job_id(sd, dd, "not_in_existing")

\* scrape_parallel calls on_batch_complete only before it returns
FeedDelivers_AfterReturn(pc, stage) == pc \in {stage, "cleanup"}
FeedDelivers(pc, stage) == pc = stage

\* if len(urls) == 0
NoNewWork_Never(urls) == FALSE
NoNewWork(urls) == Len(urls) = 0

\* an exception of search_for_jobs leaves the try block
AfterSearchFailure_Continue == "search"
AfterSearchFailure == "error"

\* self.log_message(f"Error during database update: {str(e)}")
ErrorLog_Silent(trace, e) == trace
ErrorLog(trace, e) == Append(trace, Ev("error", e))

\* raise
Reraise(e) == e

\* await loop.run_in_executor(...): the handler leaves the loop to others
LoopHolderWhileRunning_Inline(r) == r
LoopHolderWhileRunning(r) == 0

\* the response of the /update-database handler
Awaiting == [state |-> "awaiting", status |-> 0, detail |-> <<>>]
NoRequest == [state |-> "none", status |-> 0, detail |-> <<>>]
Success ==
    [state |-> "responded", status |-> 200,
     detail |-> <<"Database updated successfully">>]
Failure(e) ==
    [state |-> "responded", status |-> 500,
     detail |-> <<"Database update failed: ", e>>]

\* the except block of update_database, entered with exception e after the
\* run has logged trace (the last logged messages of it not yet published):
\* it logs the error and raises e again
Handled(r, trace, logged, e) ==
    /\ rTrace' = [rTrace EXCEPT ![r] =
                    Append(ErrorLog(trace, e), Ev("raise", Reraise(e)))]
    /\ pQueue' = Publish(pQueue,
                         logged + Len(ErrorLog(trace, e)) - Len(trace))
    /\ rRaised' = [rRaised EXCEPT ![r] = Reraise(e)]
    /\ rPc' = [rPc EXCEPT ![r] = "raised"]

PipeStart ==
    /\ BusInit
    /\ FilterIdle
    /\ SessIdle
    /\ StoreIdle
    /\ ScoreIdle
    /\ searchDs = <<>>
    /\ detailDs = <<>>
    /\ rPc = [r \in RunIds |-> "idle"]
    /\ rBatch = [r \in RunIds |-> <<>>]
    /\ rSnap = [r \in RunIds |-> <<>>]
    /\ rUrls = [r \in RunIds |-> <<>>]
    /\ fed = [search |-> 0, detail |-> 0]
    /\ rErr = [r \in RunIds |-> NoError]
    /\ rRaised = [r \in RunIds |-> NoError]
    /\ req = [r \in RunIds |-> NoRequest]
    /\ pQueue = [s \in PSubs |-> 0]
    /\ loopHeld = 0
    /\ rTrace = [r \in RunIds |-> <<>>]
    /\ rOverlap = [r \in RunIds |-> FALSE]
    /\ rStartUnique = [r \in RunIds |-> TRUE]

PipeInit == PipeStart /\ rFetched = Untracked

\* POST /update-database up to run_in_executor, and update_database on the
\* worker thread up to the call of scrape_parallel in search_for_jobs
request_update(r) ==
    /\ rPc[r] = "idle"
    /\ \A x \in RunIds : x < r => rPc[x] # "idle"
    /\ loopHeld = 0
    /\ req' = [req EXCEPT ![r] = Awaiting]
    /\ loopHeld' = LoopHolderWhileRunning(r)
    /\ rPc' = [rPc EXCEPT ![r] = "search"]
    /\ rOverlap' = [x \in RunIds |->
                      IF x = r THEN \E y \in RunIds : Running(y)
                      ELSE rOverlap[x] \/ Running(x)]
    /\ rStartUnique' = [rStartUnique EXCEPT
                          ![r] = UniqueIds(searchDs) /\ UniqueIds(detailDs)]
    /\ rTrace' = [rTrace EXCEPT ![r] =
                    <<Log("start"), Log("locations"), Log("queries"),
                      Log("searching"), Log("starting_search"),
                      Log("search_feed")>>]
    /\ pQueue' = Publish(pQueue, 5)
    /\ UNCHANGED <<searchDs, detailDs, rBatch, rSnap, rUrls, fed, rErr,
                   rRaised, rFetched>>
    /\ UNCHANGED offPipe

\* add_jobs_to_sheet up to get_dataframe. batch_results[0] of an empty
\* batch raises IndexError before anything is logged; the exception leaves
\* the callback into scrape_parallel, which goes on or fails
\* (search_feed_raises)
search_batch_read(r) ==
    /\ FeedDelivers(rPc[r], "search")
    /\ fed.search < MaxSearchBatches
    /\ fed' = [fed EXCEPT !.search = @ + 1]
    /\ \E batch \in SearchDeliveries :
          IF FirstItemMissing(batch)
          THEN /\ rTrace' = [rTrace EXCEPT ![r] =
                               Append(@, Ev("callback_raises", "IndexError"))]
               /\ UNCHANGED <<rBatch, rSnap, rPc, pQueue>>
          ELSE /\ rBatch' = [rBatch EXCEPT ![r] = Links(BatchResults(batch))]
               /\ rSnap' = [rSnap EXCEPT ![r] = SearchSnapshot(searchDs)]
               /\ rPc' = [rPc EXCEPT ![r] = "search_append"]
               /\ rTrace' = [rTrace EXCEPT ![r] =
                               Append(@, Log("scraped_links"))]
               /\ pQueue' = Publish(pQueue, 1)
    /\ UNCHANGED <<searchDs, detailDs, rUrls, rErr, rRaised, req, loopHeld,
                   rOverlap, rStartUnique, rFetched>>
    /\ UNCHANGED offPipe

\* add_jobs_to_sheet from filter_by_job_id on
search_batch_append(r) ==
    /\ rPc[r] = "search_append"
    /\ LET rows == filter_by_job_id(rBatch[r], rSnap[r], "not_in_existing")
       IN  /\ searchDs' = AppendIfAny(searchDs, rows)
           /\ rTrace' = [rTrace EXCEPT ![r] =
                           @ \o <<Log("adding_links"),
                                  Ev("append_search", Len(rows))>>]
    /\ pQueue' = Publish(pQueue, 1)
    /\ rPc' = [rPc EXCEPT ![r] = "search"]
    /\ rBatch' = [rBatch EXCEPT ![r] = <<>>]
    /\ rSnap' = [rSnap EXCEPT ![r] = <<>>]
    /\ UNCHANGED <<detailDs, rUrls, fed, rErr, rRaised, req, loopHeld, rOverlap, rStartUnique, rFetched>>
    /\ UNCHANGED offPipe

\* scrape_parallel of the search scraper raises; except Exception as e:
\* self.log_message(...); raise
search_feed_raises(r) ==
    /\ rPc[r] = "search"
    /\ rErr' = [rErr EXCEPT ![r] = "search_feed_error"]
    /\ IF AfterSearchFailure = "error"
       THEN Handled(r, rTrace[r], 0, "search_feed_error")
       ELSE /\ rPc' = [rPc EXCEPT ![r] = AfterSearchFailure]
            /\ UNCHANGED <<rTrace, pQueue, rRaised>>
    /\ UNCHANGED <<searchDs, detailDs, rBatch, rSnap, rUrls, fed, req,
                   loopHeld, rOverlap, rStartUnique, rFetched>>
    /\ UNCHANGED offPipe

\* scrape_parallel of the search scraper returns; update_database goes on
\* to scrape_job_postings, up to the call of scrape_parallel of the posting
\* scraper or to the early return
search_feed_returns(r) ==
    /\ rPc[r] = "search"
    /\ LET urls == Candidates(searchDs, detailDs)
           sofar == rTrace[r] \o <<Log("scraping"), Log("starting_scrape"),
                                   Ev("candidates",
                                      Covered(searchDs, detailDs))>>
       IN  /\ rUrls' = [rUrls EXCEPT ![r] = urls]
           /\ IF NoNewWork(urls)
              THEN /\ rTrace' = [rTrace EXCEPT ![r] =
                                   Append(sofar, Log("no_new_work"))]
                   /\ rPc' = [rPc EXCEPT ![r] = "cleanup"]
              ELSE /\ rTrace' = [rTrace EXCEPT ![r] =
                                   sofar \o <<Log("found_urls"),
                                              Log("detail_feed")>>]
                   /\ rPc' = [rPc EXCEPT ![r] = "detail"]
    /\ pQueue' = Publish(pQueue, 3)
    /\ UNCHANGED <<searchDs, detailDs, rBatch, rSnap, fed, rErr, rRaised,
                   req, loopHeld, rOverlap,
                   rStartUnique, rFetched>>
    /\ UNCHANGED offPipe

\* add_job_postings_to_sheet up to get_dataframe
detail_batch_read(r) ==
    /\ FeedDelivers(rPc[r], "detail")
    /\ fed.detail < MaxDetailBatches
    /\ \E batch \in DetailDeliveries :
          /\ rBatch' = [rBatch EXCEPT ![r] = batch]
          /\ rFetched' = IF rFetched = Untracked THEN rFetched
                         ELSE [rFetched EXCEPT ![r] = @ \cup Range(batch)]
    /\ rSnap' = [rSnap EXCEPT ![r] = DetailSnapshot(detailDs)]
    /\ fed' = [fed EXCEPT !.detail = @ + 1]
    /\ rPc' = [rPc EXCEPT ![r] = "detail_append"]
    /\ rTrace' = [rTrace EXCEPT ![r] = Append(@, Log("scraped_postings"))]
    /\ pQueue' = Publish(pQueue, 1)
    /\ UNCHANGED <<searchDs, detailDs, rUrls, rErr, rRaised, req, loopHeld,
                   rOverlap, rStartUnique>>
    /\ UNCHANGED offPipe

\* add_job_postings_to_sheet from filter_by_job_id on
detail_batch_append(r) ==
    /\ rPc[r] = "detail_append"
    /\ LET rows == filter_by_job_id(rBatch[r], rSnap[r], "none")
       IN  /\ detailDs' = AppendIfAny(detailDs, rows)
           /\ rTrace' = [rTrace EXCEPT ![r] =
                           @ \o <<Log("adding_postings"),
                                  Ev("append_detail", Len(rows))>>]
    /\ pQueue' = Publish(pQueue, 1)
    /\ rPc' = [rPc EXCEPT ![r] = "detail"]
    /\ rBatch' = [rBatch EXCEPT ![r] = <<>>]
    /\ rSnap' = [rSnap EXCEPT ![r] = <<>>]
    /\ UNCHANGED <<searchDs, rUrls, fed, rErr, rRaised, req, loopHeld, rOverlap, rStartUnique, rFetched>>
    /\ UNCHANGED offPipe

\* scrape_parallel of the posting scraper returns
detail_feed_returns(r) ==
    /\ rPc[r] = "detail"
    /\ rPc' = [rPc EXCEPT ![r] = "cleanup"]
    /\ UNCHANGED <<searchDs, detailDs, rBatch, rSnap, rUrls, fed, rErr,
                   rRaised, req, pQueue, loopHeld,
                   rTrace, rOverlap, rStartUnique, rFetched>>
    /\ UNCHANGED offPipe

\* scrape_parallel of the posting scraper raises; except Exception as e:
\* self.log_message(...); raise
detail_feed_raises(r) ==
    /\ rPc[r] = "detail"
    /\ rErr' = [rErr EXCEPT ![r] = "detail_feed_error"]
    /\ Handled(r, rTrace[r], 0, "detail_feed_error")
    /\ UNCHANGED <<searchDs, detailDs, rBatch, rSnap, rUrls, fed, req,
                   loopHeld, rOverlap, rStartUnique, rFetched>>
    /\ UNCHANGED offPipe

\* both force_cleanup_all calls return; update_database returns
cleanup_ok(r) ==
    /\ rPc[r] = "cleanup"
    /\ rTrace' = [rTrace EXCEPT ![r] =
                    @ \o <<Log("cleaning"), Log("teardown"),
                           Log("completed")>>]
    /\ pQueue' = Publish(pQueue, 2)
    /\ rPc' = [rPc EXCEPT ![r] = "returned"]
    /\ UNCHANGED <<searchDs, detailDs, rBatch, rSnap, rUrls, fed, rErr,
                   rRaised, req, loopHeld, rOverlap,
                   rStartUnique, rFetched>>
    /\ UNCHANGED offPipe

\* a force_cleanup_all call raises; except Exception as e:
\* self.log_message(...); raise
cleanup_raises(r) ==
    /\ rPc[r] = "cleanup"
    /\ rErr' = [rErr EXCEPT ![r] = "teardown_error"]
    /\ Handled(r, rTrace[r] \o <<Log("cleaning"), Log("teardown")>>, 1,
               "teardown_error")
    /\ UNCHANGED <<searchDs, detailDs, rBatch, rSnap, rUrls, fed, req,
                   loopHeld, rOverlap, rStartUnique, rFetched>>
    /\ UNCHANGED offPipe

\* the await of run_in_executor completes: the handler returns its answer or
\* turns the exception into an HTTPException
respond(r) ==
    /\ rPc[r] \in {"returned", "raised"}
    /\ loopHeld \in {0, r}
    /\ req' = [req EXCEPT ![r] =
                 IF rPc[r] = "returned" THEN Success ELSE Failure(rRaised[r])]
    /\ rPc' = [rPc EXCEPT ![r] = "finished"]
    /\ loopHeld' = 0
    /\ UNCHANGED <<searchDs, detailDs, rBatch, rSnap, rUrls, fed, rErr,
                   rRaised, pQueue, rTrace, rOverlap,
                   rStartUnique, rFetched>>
    /\ UNCHANGED offPipe

PipeNext ==
    \/ \E r \in RunIds :
        \/ request_update(r)
        \/ search_batch_read(r)
        \/ search_batch_append(r)
        \/ search_feed_returns(r)
        \/ search_feed_raises(r)
        \/ detail_batch_read(r)
        \/ detail_batch_append(r)
        \/ detail_feed_returns(r)
        \/ detail_feed_raises(r)
        \/ cleanup_ok(r)
        \/ cleanup_raises(r)
        \/ respond(r)

SpecPipeline == PipeInit /\ [][PipeNext]_vars

\* the update runs with the deliveries of the detail feed followed
RefetchInit == PipeStart /\ rFetched = [r \in RunIds |-> {}]

SpecRefetch == RefetchInit /\ [][PipeNext]_vars

----------------------------------------------------------------------------
(* The session registry: user_sessions *)

\* email in user_sessions
Contains_Never(d, e) == FALSE
Contains(d, e) == \E s \in d : s.email = e

\* user_sessions[email]
Lookup(d, e) == CHOOSE s \in d : s.email = e

\* user_sessions[email] = v
DictSet(d, e, v) == {s \in d : s.email # e} \cup {v}

\* del user_sessions[email]
DictDel_All(d, e) == {}
DictDel(d, e) == {s \in d : s.email # e}

\* {"dream_job_search": None, "subscribers": []}, a new object
NewSession(e, sid) == [email |-> e, sid |-> sid, djs |-> 0, subs |-> <<>>]

\* get_user_session(email): the registry after the call
SessionsAfterGet(d, e, sid) ==
    IF ~Contains(d, e) THEN DictSet(d, e, NewSession(e, sid)) ELSE d

\* the sessions of identity e
SessionsOf(d, e) == {s \in d : s.email = e}

NoCall ==
    [email |-> "none", before |-> {}, after |-> NewSession("none", 0)]

\* the history of get_user_session is not kept
Unrecorded ==
    [email |-> "off", before |-> {}, after |-> NewSession("off", 0)]

\* what a request presents in its Authorization header or token parameter
Tokens ==
    [email : Identities, kind : {"valid", "expired", "forged"}]
        \cup {[email |-> "none", kind |-> "missing"]}
\* what a login request presents
Credentials == [email : Emails, password : Passwords]

\* verify_jwt_token returns None
Unauthenticated == "none"

\* jwt.decode gives the payload of a token signed with the secret whose exp
\* has not passed; ExpiredSignatureError and InvalidTokenError give None
verify_jwt_token_IgnoresExpiry(t) ==
    IF t.kind \in {"valid", "expired"} THEN t.email ELSE Unauthenticated
verify_jwt_token(t) ==
    IF t.kind = "valid" THEN t.email ELSE Unauthenticated

\* get_current_user and get_current_user_from_query: the email, or 401
get_current_user(t) ==
    IF t.kind = "missing" THEN Unauthenticated ELSE verify_jwt_token(t)

\* Depends(get_current_user): the handler runs for the email of the token
Depends(t) == get_current_user(t) # Unauthenticated

\* bcrypt.checkpw(plain_password, stored_hash)
verify_password(pw, stored_hash) == stored_hash = hash_password(pw)

\* authenticate_user(email, password) returns a user
authenticate_user(db, email, pw) ==
    /\ db[email].exists
    /\ db[email].password_hash # <<>>
    /\ verify_password(pw, db[email].password_hash)

\* a request as the history keeps it; of the endpoints only /logout is
\* told apart
Request(endpoint, e, presented, status) ==
    [endpoint |-> IF endpoint = "logout" THEN "logout" ELSE "other",
     email |-> e, presented |-> presented, status |-> status]

\* the update runs a run of the model can hold
RunRefs ==
    [list : 1..(2 * MaxSessions), email : Identities,
     presented : {"valid", "expired"}]

\* the session objects that exist: those of the registry and the deleted
\* ones that a stream still holds
Objects == user_sessions \cup discarded

\* log_subscribers=session["subscribers"]: the pipeline is given the
\* session's list itself (a list is named by the id of its session)
LogSubscribers_Copy(s) == s.sid + MaxSessions
LogSubscribers(s) == s.sid

\* if self.spreadsheet_data: (load the existing sheet) else: setup_sheet()
CreatesSpreadsheet(sd) == sd = NoDescriptor

\* get_user_creds(email).get('spreadsheet_data', {})
StoredDescriptor(e) == users[e].spreadsheet_data

\* the spreadsheet a new DreamJobSearch of identity e works on, when n
\* spreadsheets exist: the one its descriptor names, or a new one
SpreadsheetOf(e, n) ==
    IF CreatesSpreadsheet(StoredDescriptor(e)) THEN n + 1
    ELSE StoredDescriptor(e)

\* the model creates at most MaxDatasets spreadsheets
CanBuild(e) == CreatesSpreadsheet(StoredDescriptor(e)) => nextDs < MaxDatasets

\* the sheet store after identity e built (or did not build) a pipeline
Sheets(e, builds) ==
    IF builds
    THEN /\ nextDs' = IF SpreadsheetOf(e, nextDs) > nextDs
                      THEN SpreadsheetOf(e, nextDs) ELSE nextDs
         /\ attached' = [attached EXCEPT
                           ![e] = @ \cup {SpreadsheetOf(e, nextDs)}]
    ELSE UNCHANGED <<nextDs, attached>>

\* initialize_user_dream_job_search(e) after its get_user_session left the
\* registry d: the handle is kept if there is one; otherwise DreamJobSearch
\* is constructed and stored, or its construction raises
Initialized(d, e, built) ==
    IF Lookup(d, e).djs # 0 \/ ~built THEN d
    ELSE DictSet(d, e, [Lookup(d, e) EXCEPT
                          !.djs = LogSubscribers(Lookup(d, e))])

\* the outcomes of a construction, if one is attempted for session s
Outcomes(s) == IF s.djs = 0 THEN BOOLEAN ELSE {FALSE}

SessInit ==
    /\ BusInit
    /\ FilterIdle
    /\ PipeIdle
    /\ StoreIdle
    /\ ScoreIdle
    /\ SessIdle

AccessInit ==
    /\ BusInit
    /\ FilterIdle
    /\ PipeIdle
    /\ StoreIdle
    /\ ScoreIdle
    /\ RegistryIdle
    /\ lastGet = Unrecorded

\* the model creates at most MaxSessions session objects
CanGet(e) == SessionsOf(user_sessions, e) # {} \/ nextSid < MaxSessions

\* one call of get_user_session(e) that leaves the registry d: what it
\* returns, and the history of the calls
Returned(d, e) ==
    /\ nextSid' = IF d # user_sessions THEN nextSid + 1 ELSE nextSid
    /\ IF lastGet = Unrecorded
       THEN UNCHANGED <<lastGet, prevGot, got>>
       ELSE /\ lastGet' = [email |-> e,
                           before |-> SessionsOf(user_sessions, e),
                           after |-> Lookup(d, e)]
            /\ prevGot' = [prevGot EXCEPT ![e] = got[e]]
            /\ got' = [got EXCEPT ![e] = Lookup(d, e).sid]

\* GET /auth/status
get_auth_status(t) ==
    LET e == get_current_user(t)
    IN  /\ Depends(t)
        /\ CanGet(e)
        /\ LET d == SessionsAfterGet(user_sessions, e, nextSid + 1)
           IN  /\ Returned(d, e)
               /\ user_sessions' = d
        /\ lastReq' = Request("auth_status", e, t.kind, 200)
        /\ UNCHANGED <<discarded, running, deliveredTo, nextDs, attached>>
        /\ UNCHANGED offSess

\* GET /logs up to the return of the StreamingResponse
logs_subscribe(t) ==
    LET e == get_current_user(t)
    IN  /\ Depends(t)
        /\ CanGet(e)
        /\ LET d == SessionsAfterGet(user_sessions, e, nextSid + 1)
               s == Lookup(d, e)
           IN  /\ Len(s.subs) < MaxStreams
               /\ Returned(d, e)
               /\ user_sessions' =
                     DictSet(d, e, [s EXCEPT !.subs = Append(@, Len(@) + 1)])
        /\ lastReq' = Request("logs", e, t.kind, 200)
        /\ UNCHANGED <<discarded, running, deliveredTo, nextDs, attached>>
        /\ UNCHANGED offSess

\* the client of a stream goes away: the finally block of event_generator
\* removes the queue from the list of the session the stream was opened on
stream_close ==
    /\ \E s \in Objects :
          /\ s.subs # <<>>
          /\ LET after == [s EXCEPT
                             !.subs = ListRemove(@, s.subs[Len(s.subs)])]
             IN  IF s \in user_sessions
                 THEN /\ user_sessions' =
                            DictSet(user_sessions, s.email, after)
                      /\ UNCHANGED discarded
                 ELSE /\ discarded' =
                            (discarded \ {s})
                               \cup (IF after.subs # <<>> THEN {after}
                                     ELSE {})
                      /\ UNCHANGED user_sessions
    /\ UNCHANGED <<nextSid, got, prevGot, lastGet, lastReq, running,
                   deliveredTo, nextDs, attached>>
    /\ UNCHANGED offSess

\* POST /job-postings when the session has no handle:
\* initialize_user_dream_job_search(e) builds the DreamJobSearch with the
\* session's subscriber list, or its construction raises
initialize_user_dream_job_search(t) ==
    LET e == get_current_user(t)
    IN  /\ Depends(t)
        /\ CanGet(e)
        /\ LET d == SessionsAfterGet(user_sessions, e, nextSid + 1)
               s == Lookup(d, e)
           IN  /\ s.djs = 0
               /\ Returned(d, e)
               /\ \E built \in BOOLEAN :
                     /\ built => CanBuild(e)
                     /\ user_sessions' = Initialized(d, e, built)
                     /\ Sheets(e, built)
                     /\ lastReq' = Request("job_postings", e, t.kind,
                                           IF built THEN 200 ELSE 500)
        /\ UNCHANGED <<discarded, running, deliveredTo>>
        /\ UNCHANGED offSess

\* POST /initialize-services: the handle is cleared, then
\* initialize_user_dream_job_search builds a new one or raises
initialize_services(t) ==
    LET e == get_current_user(t)
    IN  /\ Depends(t)
        /\ CanGet(e)
        /\ LET d == SessionsAfterGet(user_sessions, e, nextSid + 1)
               cleared == DictSet(d, e, [Lookup(d, e) EXCEPT !.djs = 0])
           IN  /\ Returned(d, e)
               /\ \E built \in BOOLEAN :
                     /\ built => CanBuild(e)
                     /\ user_sessions' = Initialized(cleared, e, built)
                     /\ Sheets(e, built)
                     /\ lastReq' = Request("initialize_services", e, t.kind,
                                           IF built THEN 200 ELSE 500)
        /\ UNCHANGED <<discarded, running, deliveredTo>>
        /\ UNCHANGED offSess

\* POST /login: a failure of the initialization is caught and the token is
\* returned all the same
login(c) ==
    /\ IF authenticate_user(users, c.email, c.password)
       THEN /\ CanGet(c.email)
            /\ LET d == SessionsAfterGet(user_sessions, c.email, nextSid + 1)
               IN  /\ Returned(d, c.email)
                   /\ \E built \in Outcomes(Lookup(d, c.email)) :
                         /\ built => CanBuild(c.email)
                         /\ user_sessions' = Initialized(d, c.email, built)
                         /\ Sheets(c.email, built)
            /\ lastReq' = Request("login", c.email, "credentials", 200)
       ELSE /\ lastReq' = Request("login", Unauthenticated,
                                  "bad_credentials", 401)
            /\ UNCHANGED <<user_sessions, nextSid, got, prevGot, lastGet,
                           nextDs, attached>>
    /\ UNCHANGED <<discarded, running, deliveredTo>>
    /\ UNCHANGED offSess

\* POST /update-database up to run_in_executor: the pipeline of the session
\* starts update_database on a worker thread, or the initialization raises
update_database_start(t) ==
    LET e == get_current_user(t)
    IN  /\ Depends(t)
        /\ CanGet(e)
        /\ running = {}
        /\ LET d == SessionsAfterGet(user_sessions, e, nextSid + 1)
           IN  /\ Returned(d, e)
               /\ \E built \in Outcomes(Lookup(d, e)) :
                     /\ built => CanBuild(e)
                     /\ user_sessions' = Initialized(d, e, built)
                     /\ Sheets(e, built)
                     /\ LET h == Lookup(Initialized(d, e, built), e).djs
                        IN  IF h = 0
                            THEN /\ lastReq' = Request("update_database", e,
                                                       t.kind, 500)
                                 /\ UNCHANGED running
                            ELSE /\ running' =
                                       {[list |-> h, email |-> e,
                                         presented |-> t.kind]}
                                 /\ lastReq' = Request("update_database", e,
                                                       t.kind, 0)
        /\ UNCHANGED <<discarded, deliveredTo>>
        /\ UNCHANGED offSess

\* log_message on the worker thread: the message is put on the queues of
\* the list the pipeline was given
run_log_message(x) ==
    /\ x \in running
    /\ deliveredTo' =
          deliveredTo \cup
             {s.sid : s \in {o \in discarded :
                                o.sid = x.list /\ o.subs # <<>>}}
    /\ UNCHANGED <<user_sessions, nextSid, got, prevGot, lastGet, lastReq,
                   discarded, running, nextDs, attached>>
    /\ UNCHANGED offSess

\* update_database returns or raises on the worker thread and the handler
\* of /update-database answers
update_database_end(x) ==
    /\ x \in running
    /\ running' = running \ {x}
    /\ \E status \in {200, 500} :
          lastReq' = Request("update_database", x.email, x.presented, status)
    /\ UNCHANGED <<user_sessions, nextSid, got, prevGot, lastGet,
                   discarded, deliveredTo, nextDs, attached>>
    /\ UNCHANGED offSess

\* POST /logout
logout(t) ==
    LET e == get_current_user(t)
    IN  /\ Depends(t)
        /\ IF Contains(user_sessions, e)
           THEN /\ user_sessions' = DictDel(user_sessions, e)
                /\ discarded' =
                      discarded \cup
                         {s \in SessionsOf(user_sessions, e) : s.subs # <<>>}
           ELSE UNCHANGED <<user_sessions, discarded>>
        /\ got' = [got EXCEPT ![e] = NoSession]
        /\ prevGot' = [prevGot EXCEPT ![e] = NoSession]
        /\ lastReq' = Request("logout", e, t.kind, 200)
        /\ UNCHANGED <<nextSid, lastGet, running, deliveredTo, nextDs,
                       attached>>
        /\ UNCHANGED offSess

\* get_current_user raises HTTPException(401): no handler runs
unauthorized(t) ==
    /\ ~Depends(t)
    /\ lastReq' = Request("protected", Unauthenticated, t.kind, 401)
    /\ UNCHANGED <<user_sessions, nextSid, got, prevGot, lastGet,
                   discarded, running, deliveredTo, nextDs, attached>>
    /\ UNCHANGED offSess

\* the requests that reach get_user_session, and logout
SessNext ==
    \E t \in Tokens :
        \/ get_auth_status(t)
        \/ logs_subscribe(t)
        \/ initialize_user_dream_job_search(t)
        \/ logout(t)

SpecSession == SessInit /\ [][SessNext]_vars

\* all the requests, the end of the streams and the update runs
AccessNext ==
    \/ \E t \in Tokens :
        \/ unauthorized(t)
        \/ get_auth_status(t)
        \/ logs_subscribe(t)
        \/ initialize_user_dream_job_search(t)
        \/ initialize_services(t)
        \/ update_database_start(t)
        \/ logout(t)
    \/ \E c \in Credentials : login(c)
    \/ stream_close
    \/ \E x \in RunRefs :
        \/ run_log_message(x)
        \/ update_database_end(x)

SpecAccess == AccessInit /\ [][AccessNext]_vars

----------------------------------------------------------------------------
(* The user store: registration *)

\* what a RegisterRequest carries
Registrations ==
    [email : Emails, password : Passwords, creds : {"g1", "g2"},
     sd : {NoDescriptor, 1}]

\* create_jwt_token(email): a token verify_jwt_token accepts for the email
create_jwt_token(email) == [email |-> email, kind |-> "valid"]

\* session.add(new_user) and the commit of get_session: the INSERT breaks
\* the primary key of the users table when a row with the email exists, and
\* the commit raises IntegrityError
InsertConflicts_Never(db, email) == FALSE
InsertConflicts(db, email) == db[email].exists

\* the answer of POST /register for the token auth_service.register gave:
\* the HTTPException(400) of the handler is raised inside its own try block
\* and leaves it as HTTPException(500)
RegisterStatus(token) == IF token # NoToken THEN 200 ELSE 500

\* register_user returned success; auth_service.register and the handler
\* finish
Registered(k, a, success) ==
    reg' = [reg EXCEPT ![k] =
              [a EXCEPT
                 !.pc = "done",
                 !.result = IF success THEN "true" ELSE "false",
                 !.token = IF success THEN create_jwt_token(a.email)
                           ELSE NoToken,
                 !.status = RegisterStatus(IF success
                                           THEN create_jwt_token(a.email)
                                           ELSE NoToken)]]

StoreInit ==
    /\ BusInit
    /\ FilterIdle
    /\ PipeIdle
    /\ SessIdle
    /\ ScoreIdle
    /\ users \in {RegisteredUsers, [e \in Emails |-> NoUser]}
    /\ reg = [k \in RegCalls |-> NoRegistration]

\* POST /register up to the query of register_user: an existing user ends
\* the call with False, otherwise the row is built and added to the session
register_user_query(k) ==
    /\ reg[k].pc = "idle"
    /\ \E a \in Registrations :
          LET call == [NoRegistration EXCEPT
                         !.email = a.email, !.password = a.password,
                         !.creds = a.creds, !.sd = a.sd,
                         !.seen = users[a.email].exists]
          IN  IF call.seen
              THEN Registered(k, call, FALSE)
              ELSE reg' = [reg EXCEPT ![k] = [call EXCEPT !.pc = "added"]]
    /\ UNCHANGED users
    /\ UNCHANGED offStore

\* the with block of register_user ends: get_session commits; an
\* IntegrityError is rolled back, raised again and caught by
\* except SQLAlchemyError, which returns False
register_user_commit(k) ==
    /\ reg[k].pc = "added"
    /\ IF InsertConflicts(users, reg[k].email)
       THEN /\ Registered(k, reg[k], FALSE)
            /\ UNCHANGED users
       ELSE /\ Registered(k, reg[k], TRUE)
            /\ users' = [users EXCEPT
                           ![reg[k].email] =
                              User(reg[k].creds, reg[k].sd, reg[k].password)]
    /\ UNCHANGED offStore

StoreNext ==
    \E k \in RegCalls :
        \/ register_user_query(k)
        \/ register_user_commit(k)

SpecStore == StoreInit /\ [][StoreNext]_vars

----------------------------------------------------------------------------
(* score_job_postings: strings are sequences of characters *)

\* the characters of the keywords tried
KeywordChars == {"A", ",", " "}
\* the keyword lists tried
KeywordLists == SeqsUpTo(SeqsUpTo(KeywordChars, MaxKeywordLen), MaxKeywords)
\* the job descriptions tried
Descriptions ==
    {<<>>, <<"a">>, <<"A", ",", " ">>, <<"a", ",", " ", "a">>}

\* the separator of ', '.join(matched) and of matched_keywords.split(', ')
Separator == <<",", " ">>

\* str.lower()
Lower(str) == [i \in 1..Len(str) |-> IF str[i] = "A" THEN "a" ELSE str[i]]

\* keyword in job_description
Occurs(keyword, str) ==
    \E i \in 0..(Len(str) - Len(keyword)) :
        SubSeq(str, i + 1, i + Len(keyword)) = keyword

\* keyword.lower() in job_description.lower()
Matches(keyword, description) == Occurs(Lower(keyword), Lower(description))

\* ', '.join(matched)
RECURSIVE Join(_)
Join(strs) ==
    IF strs = <<>> THEN <<>>
    ELSE IF Len(strs) = 1 THEN strs[1]
         ELSE strs[1] \o Separator \o Join(Tail(strs))

\* find_matched_keywords(job_description)
find_matched_keywords(keywords, description) ==
    Join(SelectSeq(keywords, LAMBDA k : Matches(k, description)))

\* the occurrences of ', ' that str.split finds from position i on, taken
\* from left to right without overlap
RECURSIVE Separators(_, _)
Separators(str, i) ==
    IF i + Len(Separator) - 1 > Len(str) THEN 0
    ELSE IF SubSeq(str, i, i + Len(Separator) - 1) = Separator
         THEN 1 + Separators(str, i + Len(Separator))
         ELSE Separators(str, i + 1)

\* calculate_score(matched_keywords)
calculate_score(matched) ==
    IF matched = <<>> THEN 0 ELSE Separators(matched, 1) + 1

ScoreInit ==
    /\ BusInit
    /\ FilterIdle
    /\ PipeIdle
    /\ SessIdle
    /\ StoreIdle
    /\ scPc = "input"
    /\ scKeywords \in KeywordLists
    /\ scText \in Descriptions
    /\ scMatched = <<>>
    /\ scScore = 0

\* score_job_postings(keywords) on a posting sheet of one record
score_job_postings ==
    /\ scPc = "input"
    /\ scMatched' = find_matched_keywords(scKeywords, scText)
    /\ scScore' = calculate_score(scMatched')
    /\ scPc' = "scored"
    /\ UNCHANGED <<scKeywords, scText>>
    /\ UNCHANGED offScore

SpecScore == ScoreInit /\ [][score_job_postings]_vars

----------------------------------------------------------------------------
(* Properties of the log broadcast *)

\* how often message m was put on queue q
Count(q, m) == queue[q][m]

\* the log_message call of m has returned and none of its callbacks is pending
Done(m) ==
    /\ pubThread[m] # "none"
    /\ m \notin InProgress
    /\ \A i \in 1..Len(ready) : ready[i].m # m

\* no subscribe and no unsubscribe happened during the call of m
Undisturbed(m) == pubAdded[m] = {} /\ pubRemoved[m] = {}

\* C1: a log_message call during which nobody subscribes or unsubscribes puts
\* its message exactly once on the queue of every subscriber registered when
\* it began, and on no other queue, on the loop thread and on the worker
\* thread alike; it never puts it twice.
C1_PublishDeliversOnce ==
    \A m \in MsgIds :
        Undisturbed(m) =>
            /\ \A q \in QueueIds : Count(q, m) <= 1
            /\ Done(m) =>
                  \A q \in QueueIds :
                      Count(q, m) = IF q \in pubStart[m] THEN 1 ELSE 0

\* a worker-thread call and a loop-thread call, each with two subscribers,
\* have both completed undisturbed
C1_Witness ==
    \E m1, m2 \in MsgIds :
        /\ pubThread[m1] = "worker" /\ pubThread[m2] = "loop"
        /\ Done(m1) /\ Done(m2)
        /\ Undisturbed(m1) /\ Undisturbed(m2)
        /\ Cardinality(pubStart[m1]) >= 2 /\ Cardinality(pubStart[m2]) >= 2
        /\ \A q \in pubStart[m1] : Count(q, m1) = 1
        /\ \A q \in pubStart[m2] : Count(q, m2) = 1

\* C2: a call on the worker thread never enqueues directly, it hands the
\* enqueue to the loop; a direct enqueue is made only by a caller that runs
\* on the loop.
C2_WorkerHandsOverToLoop ==
    [][/\ (wPc = "put" /\ wPc' # wPc) => ready' # ready
       /\ queue' # queue => wPc' = wPc]_vars

\* C3: whatever is subscribed or unsubscribed while a call iterates, every
\* subscriber registered for the whole call gets the message exactly once.
C3_StableSubscribersServedOnce ==
    \A m \in MsgIds :
        Done(m) => \A q \in pubStart[m] \ pubRemoved[m] : Count(q, m) = 1

\* C4: the subscriber list never holds a queue whose connection has ended.
C4_EndedConnectionUnsubscribed ==
    \A q \in QueueIds : conn[q] = "closed" => q \notin Range(subscribers)

\* C5 as stated: nothing is put on a queue after its removal from the list.
C5_NothingAfterRemoval ==
    [][\A q \in Removed : queue'[q] = queue[q]]_vars

\* C5 as amended: a removed queue holds no message of a log_message call that
\* began after the removal.
C5_NothingFromLaterPublish ==
    \A q \in Removed :
        \A m \in MsgIds : Count(q, m) > 0 => m <= removedAt[q]

\* a queue that had received a message was removed, and a call that began
\* later has completed and served the remaining subscriber
C5_Witness ==
    \E q \in Removed, m \in MsgIds :
        /\ \E n \in MsgIds : Count(q, n) > 0
        /\ m > removedAt[q]
        /\ Done(m)
        /\ pubStart[m] # {}
        /\ \A p \in pubStart[m] : Count(p, m) = 1
        /\ Count(q, m) = 0

\* C6: a queue only holds messages of log_message calls that began after
\* logs registered it, and holds nothing before that.
C6_OnlyLaterMessages ==
    \A q \in QueueIds :
        /\ conn[q] = "none" => \A m \in MsgIds : Count(q, m) = 0
        /\ \A m \in MsgIds : Count(q, m) > 0 => m > regAt[q]

----------------------------------------------------------------------------
(* Properties of extract_job_id and filter_by_job_id *)

IdOf(item) == extract_job_id(ItemLink(item))

Filtered == fPc \in {"filtered", "refiltered"}

\* C7: no returned item has the identity of a link of the existing dataset,
\* no two returned items have the same identity, and of the items of a batch
\* that share an identity the dataset lacks, exactly the first is returned.
C7_NoIdentityCollision ==
    LET out == [k \in 1..Len(fResult) |-> IdOf(fResult[k])]
        new == [i \in 1..Len(fBatch) |-> IdOf(fBatch[i])]
        old == ExistingJobIds(fExisting)
    IN Filtered =>
        /\ \A k \in 1..Len(fResult) :
              out[k] # NoId =>
                  /\ out[k] \notin old
                  /\ \A l \in 1..Len(fResult) : l # k => out[l] # out[k]
        /\ \A i \in 1..Len(fBatch) :
              (new[i] # NoId /\ new[i] \notin old) =>
                  (i \in Range(fKept) <=>
                      \A j \in 1..(i - 1) : new[j] # new[i])

\* a batch with two items of one new identity and an item whose identity the
\* dataset has: the first is returned, the other two are not
C7_Witness ==
    LET new == [i \in 1..Len(fBatch) |-> IdOf(fBatch[i])]
        old == ExistingJobIds(fExisting)
    IN /\ Filtered
       /\ \E i, j, k \in 1..Len(fBatch) :
            /\ i < j
            /\ new[i] # NoId
            /\ new[i] = new[j]
            /\ fBatch[i] # fBatch[j]
            /\ new[i] \notin old
            /\ new[k] \in old
            /\ i \in Range(fKept)
            /\ j \notin Range(fKept)
            /\ k \notin Range(fKept)

\* C8: an item with no identity is returned if and only if a fallback
\* predicate was supplied and holds of the item and the existing dataset as
\* it was passed in.
C8_FallbackAgainstOriginal ==
    LET new == [i \in 1..Len(fBatch) |-> IdOf(fBatch[i])]
    IN Filtered =>
        \A i \in 1..Len(fBatch) :
            new[i] = NoId =>
                (i \in Range(fKept) <=>
                    /\ fFallback # "none"
                    /\ FallbackEval(fFallback, fBatch[i], fExisting))

\* a batch holds the same identity-less link twice, the dataset lacks it and
\* a predicate was supplied: both are returned
C8_Witness ==
    /\ Filtered
    /\ fFallback # "none"
    /\ \E i, j \in 1..Len(fBatch) :
        /\ i < j
        /\ fBatch[i] = fBatch[j]
        /\ IdOf(fBatch[i]) = NoId
        /\ i \in Range(fKept) /\ j \in Range(fKept)

\* C9: filtering the output of filter_by_job_id again against the same
\* existing dataset returns that output unchanged.
C9_FilterIdempotent == fPc = "refiltered" => fAgain = fResult

\* a batch lost an item to the filter and the rest went through it again
C9_Witness ==
    /\ fPc = "refiltered"
    /\ fResult # <<>>
    /\ Len(fResult) < Len(fBatch)
    /\ \E k \in 1..Len(fResult) : IdOf(fResult[k]) = NoId
    /\ \E k \in 1..Len(fResult) : IdOf(fResult[k]) # NoId

\* the segments of the shape /view/<anything>-<10 digits>: "/view/" at i, a
\* hyphen at j, a run of exactly IdLen digits after it
Segments(link) ==
    {p \in (1..Len(link)) \X (1..Len(link)) :
        /\ IsViewAt(link, p[1])
        /\ p[2] >= p[1] + Len(View)
        /\ IsIdAt(link, p[2])
        /\ DotSpan(link, p[1], p[2])
        /\ (p[2] + IdLen < Len(link) => link[p[2] + IdLen + 1] \notin Digits)}

\* C10: a link with such a segment yields the 10 digits of the segment; any
\* other link (a digit run shorter or longer than 10) yields no identity.
C10_ExtractExactlyTenDigits ==
    fPc = "extracted" =>
        IF Segments(fLink) # {}
        THEN \E p \in Segments(fLink) :
                fId = SubSeq(fLink, p[2] + 1, p[2] + IdLen)
        ELSE fId = NoId

----------------------------------------------------------------------------
(* Properties of the update runs *)

\* the trace entries of run r of the given kinds, as positions
Entries(r, kinds) == {i \in 1..Len(rTrace[r]) : rTrace[r][i].ev \in kinds}

\* rows the callbacks of run r decided to append to a dataset
RECURSIVE RowsDecided(_, _, _)
RowsDecided(trace, kind, i) ==
    IF i > Len(trace) THEN 0
    ELSE (IF trace[i].ev = kind THEN trace[i].arg ELSE 0)
         + RowsDecided(trace, kind, i + 1)

RECURSIVE SumOver(_, _, _)
SumOver(runs, kind, r) ==
    IF r > MaxRuns THEN 0
    ELSE RowsDecided(rTrace[r], kind, 1) + SumOver(runs, kind, r + 1)

SearchStageEvents ==
    {"search_feed", "scraped_links", "adding_links", "append_search"}
DetailStageEvents ==
    {"starting_scrape", "candidates", "no_new_work", "found_urls", "detail_feed",
     "scraped_postings", "adding_postings", "append_detail"}

\* C11: while an update run that began with no duplicate identity in either
\* dataset, and that no other run has overlapped, is in progress, no two rows
\* of the search dataset and no two rows of the detail dataset carry the same
\* extractable identity
C11_UniquePerIdentity ==
    \A r \in RunIds :
        (Running(r) /\ rStartUnique[r] /\ ~rOverlap[r])
            => UniqueIds(searchDs) /\ UniqueIds(detailDs)

\* a run that nothing overlapped has processed two search batches and the
\* dataset holds one row, with an identity: the other items were duplicates
C11_Witness ==
    \E r \in RunIds :
        /\ Running(r) /\ rStartUnique[r] /\ ~rOverlap[r]
        /\ Cardinality(Entries(r, {"append_search"})) = 2
        /\ Len(searchDs) = 1
        /\ extract_job_id(searchDs[1]) # NoId

\* C12: nothing excludes overlapping update runs from one another: every row
\* a batch callback decided to append, from the snapshot it read, is appended,
\* also when another run has appended the same item in between, so the
\* datasets hold as many rows as the callbacks of all runs decided to append
C12_EveryDecidedRowLands ==
    /\ Len(searchDs) = SumOver(RunIds, "append_search", 1)
    /\ Len(detailDs) = SumOver(RunIds, "append_detail", 1)

\* two runs have each appended one row to the search dataset, and its two
\* rows carry the same identity
C12_Witness ==
    /\ \A r \in {1, 2} : RowsDecided(rTrace[r], "append_search", 1) = 1
    /\ Len(searchDs) = 2
    /\ extract_job_id(searchDs[1]) # NoId
    /\ extract_job_id(searchDs[1]) = extract_job_id(searchDs[2])

\* C13: in the trace of a run, nothing of the search stage (the feed's
\* invocation, a batch, its filtering, its append) comes after anything of
\* the detail stage, and when the detail stage begins every search batch
\* that was delivered has been appended
C13_SearchBeforeDetail ==
    \A r \in RunIds :
        /\ \A i \in Entries(r, DetailStageEvents) :
              \A j \in Entries(r, SearchStageEvents) : j < i
        /\ Entries(r, DetailStageEvents) # {}
              => Cardinality(Entries(r, {"scraped_links"}))
                    = Cardinality(Entries(r, {"append_search"}))

\* a run has invoked the detail feed after it appended a search batch
C13_Witness ==
    \E r \in RunIds :
        /\ Entries(r, {"detail_feed"}) # {}
        /\ Entries(r, {"append_search"}) # {}
        /\ rPc[r] = "detail_append"

\* trace entries that are not log messages
CallEvents ==
    {"search_feed", "detail_feed", "append_search", "append_detail",
     "candidates", "teardown", "raise", "callback_raises"}

\* log_message calls of all runs so far
RECURSIVE Logged(_)
Logged(r) ==
    IF r > MaxRuns THEN 0
    ELSE Cardinality({i \in 1..Len(rTrace[r]) :
                        rTrace[r][i].ev \notin CallEvents})
         + Logged(r + 1)

IsPrefix(s, t) == Len(s) <= Len(t) /\ SubSeq(t, 1, Len(s)) = s

C15_AbortKeepsAppended ==
    /\ [](\A r \in RunIds :
            /\ rErr[r] # NoError => rPc[r] \in {"raised", "finished"}
            /\ rErr[r] = "search_feed_error"
                  => Entries(r, DetailStageEvents) = {})
    /\ [][/\ IsPrefix(searchDs, searchDs')
          /\ IsPrefix(detailDs, detailDs')
          /\ \A r \in RunIds :
                rErr[r] # NoError => rTrace'[r] = rTrace[r]]_vars

\* the search feed of a run failed after the run had appended a batch, the
\* row is in the dataset and the caller has its answer
C15_Witness ==
    \E r \in RunIds :
        /\ rErr[r] = "search_feed_error"
        /\ RowsDecided(rTrace[r], "append_search", 1) > 0
        /\ Len(searchDs) > 0
        /\ rPc[r] = "finished"

\* C16: the exception update_database raises to its caller is the one that
\* aborted the run, and the run's trace holds the error message, carrying
\* that exception, before the raise
C16_ErrorLoggedBeforeRaise ==
    \A r \in RunIds :
        (rPc[r] \in {"raised", "finished"} /\ rErr[r] # NoError)
            => /\ rRaised[r] = rErr[r]
               /\ \E i \in Entries(r, {"error"}) :
                     /\ rTrace[r][i].arg = rErr[r]
                     /\ \A j \in Entries(r, {"raise"}) : i < j
               /\ Entries(r, {"raise"}) # {}

\* the detail feed of a run failed and update_database has raised
C16_Witness ==
    \E r \in RunIds :
        /\ rErr[r] = "detail_feed_error"
        /\ rPc[r] = "raised"
        /\ req[r] = Awaiting

\* C17: a run whose two stages completed attempts the teardown, and when the
\* teardown raises update_database still returns and the request answers
\* success
C17_TeardownFailureNotPropagated ==
    \A r \in RunIds :
        /\ rPc[r] \in {"returned", "raised", "finished"}
              /\ rErr[r] \notin {"search_feed_error", "detail_feed_error"}
              => Entries(r, {"teardown"}) # {}
        /\ rErr[r] = "teardown_error"
              => /\ rPc[r] # "raised"
                 /\ rRaised[r] = NoError
                 /\ req[r].state = "responded" => req[r] = Success

\* C18: the handler answers only after update_database has returned or
\* raised on the worker thread, success only after it returned, and while
\* the run is in progress the handler is suspended and does not hold the
\* loop thread
C18_RunOffTheLoop ==
    \A r \in RunIds :
        /\ req[r].state = "responded" => rPc[r] = "finished"
        /\ req[r] = Success
              => /\ rErr[r] = NoError
                 /\ Entries(r, {"completed"}) # {}
        /\ Running(r) => loopHeld = 0 /\ req[r] = Awaiting
        /\ rPc[r] \in {"returned", "raised"} => req[r] = Awaiting

\* while one run is in the middle of a batch on its worker thread, the loop
\* has accepted a second update request, whose run is in progress too
C18_Witness ==
    /\ rPc[1] = "search_append"
    /\ Running(2)
    /\ loopHeld = 0

\* C19: a failed run's request is answered with status 500 and a detail that
\* carries the exception's message; every log message reached every
\* subscriber whose put_nowait does not raise, whatever the other
\* subscribers' put_nowait did; and after a failed run the loop accepts the
\* next update request
C19_FailureBecomesErrorResponse ==
    /\ \A r \in RunIds :
          (req[r].state = "responded" /\ rErr[r] # NoError)
              => /\ req[r].status = 500
                 /\ req[r].detail = <<"Database update failed: ", rErr[r]>>
    /\ \A q \in PSubs \ FailingSubs : pQueue[q] = Logged(1)
    /\ \A q \in FailingSubs : pQueue[q] = 0
    /\ \A r \in RunIds :
          (rPc[r] = "idle" /\ \A x \in RunIds : x < r => rPc[x] = "finished")
              => ENABLED request_update(r)

\* the first run failed and was answered with an error, the second run was
\* requested afterwards and was answered with success, and the subscriber
\* behind the failing one has all the messages
C19_Witness ==
    /\ req[1].status = 500
    /\ rOverlap[2] = FALSE
    /\ req[2] = Success
    /\ pQueue[3] = Logged(1)
    /\ pQueue[3] > 0

----------------------------------------------------------------------------
(* Properties of the session registry *)

\* C20: an identity has at most one session; the session a call of
\* get_user_session returned stays the identity's session until its logout,
\* so that two calls with no logout between them return the same session;
\* and the last call either found no session and returned a new empty one,
\* or returned the session it found, as it found it
C20_GetOrCreate ==
    /\ \A e \in Identities :
          /\ Cardinality(SessionsOf(user_sessions, e)) <= 1
          /\ (got[e] # NoSession /\ prevGot[e] # NoSession)
                => got[e] = prevGot[e]
          /\ got[e] # NoSession
                => \E s \in SessionsOf(user_sessions, e) : s.sid = got[e]
    /\ lastGet.email # "none"
          => IF lastGet.before = {}
             THEN lastGet.after = NewSession(lastGet.email, lastGet.after.sid)
             ELSE lastGet.before = {lastGet.after}

\* the last call found a session that holds a pipeline handle and a
\* subscriber and returned it, as the call before had
C20_Witness ==
    /\ lastGet.email # "none"
    /\ lastGet.before = {lastGet.after}
    /\ lastGet.after.djs # 0
    /\ lastGet.after.subs # <<>>
    /\ got[lastGet.email] = prevGot[lastGet.email]
    /\ \E e \in Identities : e # lastGet.email /\ got[e] # NoSession

\* the ids of the sessions of a registry
Sids(d) == {s.sid : s \in d}

\* what a request presents when its authentication succeeds
Accepted == {"valid", "credentials"}
\* what a request presents when its authentication fails
Rejected == {"expired", "forged", "missing", "bad_credentials"}

\* C21: a step that takes a session out of the registry is a logout of the
\* session's identity, answered with success, and leaves the identity
\* without a session (so nothing replaces a session either); a step that
\* puts a session into the registry is a request that authenticated as the
\* session's identity, the identity had no session before it, and the
\* session is an object no earlier session was, holding no more than that
\* one request can have put there
C21_OnlyLogoutRemoves ==
    [][/\ \A s \in user_sessions :
             s.sid \notin Sids(user_sessions')
                => /\ lastReq'.endpoint = "logout"
                   /\ lastReq'.email = s.email
                   /\ lastReq'.status = 200
                   /\ SessionsOf(user_sessions', s.email) = {}
       /\ \A s \in user_sessions' :
             s.sid \notin Sids(user_sessions)
                => /\ lastReq'.endpoint # "logout"
                   /\ lastReq'.email = s.email
                   /\ lastReq'.presented \in Accepted
                   /\ SessionsOf(user_sessions, s.email) = {}
                   /\ s.sid > nextSid
                   /\ s.sid \notin Sids(discarded)
                   /\ Len(s.subs) <= 1
                   /\ s.djs \in {0, s.sid}]_vars

\* an identity logged out and was given a third session object on its next
\* access while the other identity kept the first one, and an update run or
\* an initialization has just failed
C21_Witness ==
    /\ \E s, o \in user_sessions :
          s.sid = 1 /\ o.sid = MaxSessions /\ s.email # o.email
    /\ lastReq.status = 500

\* C22: a request that presented an expired, forged or missing token, and a
\* login whose credentials do not match, is answered 401 for no identity
\* and its step leaves the registry as it was; a session is put into the
\* registry only for the identity a valid token or valid credentials name
C22_RejectedLeavesRegistry ==
    /\ [](lastReq.presented \in Rejected
            => lastReq.status = 401 /\ lastReq.email = Unauthenticated)
    /\ [][/\ (lastReq'.presented \in Rejected /\ lastReq' # lastReq)
                => (user_sessions' = user_sessions /\ nextSid' = nextSid)
          /\ \A s \in user_sessions' :
                s.sid \notin Sids(user_sessions)
                   => /\ lastReq'.presented \in Accepted
                      /\ lastReq'.email = s.email]_vars

\* a request with an expired token was rejected while the registry held a
\* session of the identity the token names
C22_Witness ==
    /\ lastReq.presented = "expired"
    /\ lastReq.status = 401
    /\ user_sessions # {}

\* C24: the pipelines built for one identity all work on one spreadsheet
C24_ReattachesToSameDataset ==
    \A e \in Identities : Cardinality(attached[e]) <= 1

\* C29: the list the pipeline of a session of the registry publishes to is
\* the list of that session, the one /logs appends to
C29_PipelinePublishesToSessionList ==
    \A s \in user_sessions : s.djs # 0 => s.djs = s.sid

\* the third session object holds a pipeline and a subscriber, after a
\* logout, while an update run is in progress
C29_Witness ==
    /\ \E s \in user_sessions :
          s.sid = MaxSessions /\ s.djs # 0 /\ s.subs # <<>>
    /\ running # {}

\* C30: no message is put on a queue of a session that logout deleted
C30_NothingAfterLogout == deliveredTo = {}

----------------------------------------------------------------------------
(* Properties of the user store *)

\* C23: a registration that ends when its email is registered returns
\* False from the store (no exception leaves register_user), gives no token
\* and is not answered with success; and no step changes a stored row,
\* whatever the order of the queries and commits of two registrations
C23_DuplicateRegistrationFails ==
    [][/\ \A k \in RegCalls :
             (reg[k].pc # "done" /\ reg'[k].pc = "done"
                 /\ users[reg'[k].email].exists)
                => /\ reg'[k].result = "false"
                   /\ reg'[k].token = NoToken
                   /\ reg'[k].status # 200
       /\ \A e \in Emails : users[e].exists => users'[e] = users[e]]_vars

\* two registrations of one email raced: neither query saw a row; the first
\* commit stored its row, the second failed, and the row is the winner's
C23_Witness ==
    /\ reg[1].pc = "done" /\ reg[2].pc = "done"
    /\ reg[1].email = reg[2].email
    /\ ~reg[1].seen /\ ~reg[2].seen
    /\ reg[1].result = "true" /\ reg[2].result = "false"
    /\ reg[1].password # reg[2].password
    /\ users[reg[1].email] = User(reg[1].creds, reg[1].sd, reg[1].password)

----------------------------------------------------------------------------
(* Properties of score_job_postings *)

\* C25: the score of the record is the number of positions of the keywords
\* list whose keyword occurs in the description, letter case ignored
C25_ScoreCountsMatched ==
    scPc = "scored"
        => scScore =
              Cardinality({i \in 1..Len(scKeywords) :
                              Matches(scKeywords[i], scText)})

----------------------------------------------------------------------------
(* Properties of the candidate links and of the batch callbacks *)

\* the detail record that would stand for the link: a link of the same
\* identity, or the same link when it has no identity
SameRecord(a, b) ==
    IF extract_job_id(a) # NoId THEN extract_job_id(a) = extract_job_id(b)
    ELSE a = b

BatchMessages ==
    {"scraped_links", "adding_links", "scraped_postings", "adding_postings"}

\* C27: a run that is not inside a batch callback has emitted one batch
\* message for each batch it has processed, and each of them tells both
\* counts
C27_OneMessagePerBatch ==
    \A r \in RunIds :
        rPc[r] \notin {"search_append", "detail_append"}
           => /\ Cardinality(Entries(r, BatchMessages))
                    = Cardinality(Entries(r, {"append_search",
                                              "append_detail"}))
              /\ \A i \in Entries(r, BatchMessages) :
                    Carries(rTrace[r][i].ev) = {"before", "after"}

\* C28: a callback that ends appends to its feed's dataset the items that
\* filter_by_job_id keeps of its batch against the dataset it read, in
\* batch order and after the rows that are there (so none when none is
\* kept), and leaves the other dataset alone; no step changes or removes a
\* row of either dataset, and only an ending callback adds one
C28_BatchOnlyAppendsSurvivors ==
    [][/\ IsPrefix(searchDs, searchDs') /\ IsPrefix(detailDs, detailDs')
       /\ \A r \in RunIds :
             /\ (rPc[r] = "search_append" /\ rPc'[r] = "search")
                   => /\ searchDs' =
                            searchDs \o filter_by_job_id(rBatch[r], rSnap[r],
                                                         "not_in_existing")
                      /\ detailDs' = detailDs
             /\ (rPc[r] = "detail_append" /\ rPc'[r] = "detail")
                   => /\ detailDs' =
                            detailDs \o filter_by_job_id(rBatch[r], rSnap[r],
                                                         "none")
                      /\ searchDs' = searchDs
       /\ searchDs' # searchDs
             => \E r \in RunIds :
                   rPc[r] = "search_append" /\ rPc'[r] = "search"
       /\ detailDs' # detailDs
             => \E r \in RunIds :
                   rPc[r] = "detail_append" /\ rPc'[r] = "detail"]_vars

\* a run has appended the two items of one search batch, in batch order,
\* and none of another, and one item of a detail batch
C28_Witness ==
    \E r \in RunIds :
        /\ \E i, j \in Entries(r, {"append_search"}) :
              rTrace[r][i].arg = 2 /\ rTrace[r][j].arg = 0
        /\ Len(searchDs) = 2
        /\ \E i \in Entries(r, {"append_detail"}) : rTrace[r][i].arg = 1
        /\ Len(detailDs) = 1

----------------------------------------------------------------------------
(* Properties of repeated runs and of the batches of the search feed *)

\* run r has left its search stage and its batches added no row
SearchAddedNothing(r) ==
    /\ Entries(r, {"candidates"}) # {}
    /\ RowsDecided(rTrace[r], "append_search", 1) = 0

\* C31: when a run has completed and the detail feed gave it a record for
\* every link it was given, with that link, a run that begins afterwards
\* and whose search stage adds no row gives the detail feed no link and
\* does not invoke it, whether the links of the search dataset have an
\* identity or not
C31_NothingFetchedAgain ==
    \A r1, r2 \in RunIds :
        (/\ r1 < r2
         /\ rPc[r1] \in {"returned", "finished"} /\ rErr[r1] = NoError
         /\ Range(rUrls[r1]) \subseteq rFetched[r1]
         /\ ~rOverlap[r2]
         /\ SearchAddedNothing(r2))
            => /\ rUrls[r2] = <<>>
               /\ Entries(r2, {"detail_feed"}) = {}

\* no two rows of the dataset carry the same link
DistinctLinks(ds) == \A i, j \in 1..Len(ds) : i < j => ds[i] # ds[j]

\* a link with no identity is in the batch more than once
RepeatsLinkWithoutId(batch) ==
    \E i, j \in 1..Len(batch) :
        i < j /\ batch[i] = batch[j] /\ extract_job_id(batch[i]) = NoId

\* C32 as stated: whatever batches the search feed has delivered to runs
\* that did not overlap, no two rows of the search dataset carry the same
\* link
C32_NoLinkTwice ==
    (\A r \in RunIds : ~rOverlap[r]) => DistinctLinks(searchDs)

\* C32 amended: a search batch in which no link without identity occurs
\* more than once, appended to the dataset its callback read, leaves no two
\* rows with the same link when there were none before
C32_NoLinkTwiceUnlessRepeatedInBatch ==
    [][\A r \in RunIds :
          (/\ rPc[r] = "search_append" /\ rPc'[r] = "search"
           /\ rSnap[r] = searchDs
           /\ DistinctLinks(searchDs)
           /\ ~RepeatsLinkWithoutId(rBatch[r]))
              => DistinctLinks(searchDs')]_vars

\* the dataset holds a link without identity that an earlier batch of the
\* run added, and the callback has read it for a batch with that link
C32_Witness ==
    \E r \in RunIds :
        /\ rPc[r] = "search_append"
        /\ RowsDecided(rTrace[r], "append_search", 1) = 1
        /\ Len(rBatch[r]) = 1
        /\ extract_job_id(rBatch[r][1]) = NoId
        /\ searchDs = rBatch[r]
        /\ rSnap[r] = searchDs

\* C33: the callback of the search feed raises on no batch the feed
\* delivers, flat, nested or empty
C33_EveryBatchHandled ==
    \A r \in RunIds : Entries(r, {"callback_raises"}) = {}

====
